---- MODULE Spec2Model ----
(***************************************************************************)
(* Model of the vector retrieval service of Douban-Viz                     *)
(* (src/analysis/vector_service.py, class VectorService) together with its *)
(* callers: the background warm-up thread of src/app.py, the rebuild       *)
(* request of src/routes/api.py and the query routes.                      *)
(*                                                                         *)
(* Optional values (Python None / object) are modelled as sequences of     *)
(* length 0 (None) or 1 (the object).                                      *)
(***************************************************************************)
EXTENDS Integers, Sequences, FiniteSets, TLC

\* ---- bounds of the model ----
MaxId == 2
MaxTopK == 2

\* ---- program constants ----
MinIntroLen == 5

\* the threads of the program: a background build thread (the warm-up thread
\* of src/app.py line 51 or a rebuild task of src/routes/api.py line 98) and
\* a request thread serving the query routes
Threads == {"builder", "query"}

Ids == 1..MaxId
TopKs == 1..MaxTopK

None == << >>
Some(x) == << x >>
IsNone(o) == o = << >>
Val(o) == o[1]

VARIABLES
  storage,     \* rows returned by repo.get_all_movies(), in table order
  cache,       \* the file data/vectors.pkl
  vectors,     \* self.vectors
  movie_ids,   \* self.movie_ids
  id_to_meta,  \* self.id_to_meta
  model,       \* self.model
  lock,        \* self.lock: None or the holder
  pc,          \* position of each thread
  op,          \* the outer operation a thread is running
  force,       \* force_refresh of the running build_index call
  arg,         \* arguments of the running query
  valid,       \* local valid_movies of the running build_index body
  sorted,      \* local sorted_indices / top_indices of the running query
  ret,         \* what the call that ended in the latest step delivered
  scanned,     \* how many candidates the scan loop of the search that ended
               \* in the latest step took up
  bcall,       \* history of the running build_index body (reset on exit)
  lazyBuilt,   \* history: a non-forced call completed a rebuild since the
               \* service was constructed and the table last changed
  emptyBuilt   \* history: the latest build that fetched the table found no
               \* indexable record

vars == << storage, cache, vectors, movie_ids, id_to_meta, model, lock, pc,
           op, force, arg, valid, sorted, ret, scanned, bcall, lazyBuilt,
           emptyBuilt >>

\* ---- records and storage ----
\* text fields are sequences of characters; a character is a small number,
\* 0..9 being the decimal digits
NoText == << >>

\* characters that are not digits
Punct == 10
LetterA == 11
LetterB == 12
Space == 13

\* a text of n letters
Letters(n) == [i \in 1..n |-> LetterA]

\* a text of n blanks
Blanks(n) == [i \in 1..n |-> Space]

\* a table row (lines 84-85: 0:id, 3:title, 6:intro, 7:year, 8:country,
\* 9:category, 10:directors, 11:actors); the description is None or a text
FullRow(i, title, intro, year, country, category, director, actor) ==
  [id |-> i, title |-> title, intro |-> intro, year |-> year, country |-> country,
   category |-> category, director |-> director, actor |-> actor]

\* a row with a title of its own, a description of l letters and no
\* attributes; rows carry the identifiers 1..n in table order
Row(i, l) == FullRow(i, i, Some(Letters(l)), NoText, NoText, NoText, NoText, NoText)

\* the table contents explored: any number of rows with an indexable
\* description, optionally followed by one newest row whose description is
\* too short
Storages ==
  { [i \in 1..n |-> Row(i, MinIntroLen + 1)] : n \in 0..MaxId }
  \cup { [i \in 1..n |-> Row(i, IF i = n THEN MinIntroLen ELSE MinIntroLen + 1)] :
          n \in 1..MaxId }

\* str.strip(): the text without its leading and trailing blanks
RECURSIVE LStrip(_)
LStrip(s) == IF s # << >> /\ Head(s) = Space THEN LStrip(Tail(s)) ELSE s

RECURSIVE RStrip(_)
RStrip(s) ==
  IF s # << >> /\ s[Len(s)] = Space THEN RStrip(SubSeq(s, 1, Len(s) - 1)) ELSE s

Strip(s) == RStrip(LStrip(s))

\* line 73: m[6] and len(m[6].strip()) > 5
IsIndexableUntrimmed(m) ==
  ~IsNone(m.intro) /\ Val(m.intro) # << >> /\ Len(Val(m.intro)) > MinIntroLen

IsIndexable(m) ==
  ~IsNone(m.intro) /\ Val(m.intro) # << >> /\ Len(Strip(Val(m.intro))) > MinIntroLen

ValidMovies(movies) == SelectSeq(movies, IsIndexable)

\* lines 81-107: the sentence rendered for a record: title, the attributes
\* that are not empty, and the description; the identifier is not part of it
Render(m) ==
  << m.title >> \o m.year \o m.country \o m.category \o m.director
     \o m.actor \o Val(m.intro)

\* the encoder: an opaque function from a sentence to a vector
Encode(sentence) == sentence[1] * 8 + Len(sentence)

\* line 127
EncodeAll(movies) == [i \in 1..Len(movies) |-> Encode(Render(movies[i]))]

\* line 110
IdsOf(movies) == [i \in 1..Len(movies) |-> movies[i].id]

\* lines 112-123: the metadata record of one row
MetaRec(m) ==
  [title |-> m.title, intro |-> m.intro, year |-> m.year, country |-> m.country,
   category |-> m.category, director |-> m.director, actor |-> m.actor]

\* lines 111-124: a dict keyed by identifier (a later duplicate would win)
MetaOf(movies) ==
  [k \in { movies[i].id : i \in 1..Len(movies) } |->
     LET i == CHOOSE j \in 1..Len(movies) :
                 movies[j].id = k /\ \A h \in 1..Len(movies) : movies[h].id = k => h <= j
     IN MetaRec(movies[i])]

Triple == [vectors |-> vectors, movie_ids |-> movie_ids, id_to_meta |-> id_to_meta]

NoTriple == [vectors |-> None, movie_ids |-> None, id_to_meta |-> None]

\* the cache file: absent, or its content; the content of a complete file is
\* the pickled dict, a list of (key, value) entries in insertion order
NoCache == [kind |-> "absent", data |-> << >>]

\* the file after open(..., "wb") and before pickle.dump completed
PartialCache == [kind |-> "partial", data |-> << >>]

\* lines 134-138: pickle.dump of the dict of the three fields
Blob(v, ids, meta) ==
  [kind |-> "blob",
   data |-> << << "vectors", v >>, << "movie_ids", ids >>, << "id_to_meta", meta >> >>]

\* key in data for the unpickled dict
HasKey(data, key) == \E j \in 1..Len(data) : data[j][1] = key

\* data[key] of the unpickled dict (lines 143-145)
Lookup(data, key) ==
  LET i == CHOOSE j \in 1..Len(data) : data[j][1] = key IN data[i][2]

BlobTriple == [vectors |-> Lookup(cache.data, "vectors"),
               movie_ids |-> Lookup(cache.data, "movie_ids"),
               id_to_meta |-> Lookup(cache.data, "id_to_meta")]

\* what a call delivers to its caller in the step that ends it
NoRet == [kind |-> "none", val |-> << >>]
Ok(val) == [kind |-> "ok", val |-> val]
Raise(why) == [kind |-> "raise", val |-> << why >>]
NoRets == [t \in Threads |-> NoRet]

\* a filter value: absent from the dict, a value of the expected type, or
\* a value of another type (None for a year bound, a list for a text filter)
Absent == [kind |-> "absent", val |-> << >>]
IntVal(n) == [kind |-> "int", val |-> << n >>]
StrVal(x) == [kind |-> "str", val |-> x]
BadVal == [kind |-> "bad", val |-> << >>]

\* line 181: filters = filters or {}
NoFilters ==
  [year_min |-> Absent, year_max |-> Absent, country |-> Absent,
   category |-> Absent, director |-> Absent, actor |-> Absent]

NoArg == [id |-> 0, k |-> 0, filters |-> NoFilters]

NoCall == [pre |-> NoTriple, work |-> {}]

\* lines 19-27
Init ==
  /\ storage \in Storages
  /\ cache = NoCache
  /\ vectors = None
  /\ movie_ids = None
  /\ id_to_meta = None
  /\ model = None
  /\ lock = None
  /\ pc = [t \in Threads |-> "idle"]
  /\ op = [t \in Threads |-> "none"]
  /\ force = [t \in Threads |-> FALSE]
  /\ arg = [t \in Threads |-> NoArg]
  /\ valid = << >>
  /\ sorted = [t \in Threads |-> << >>]
  /\ ret = NoRets
  /\ scanned = 0
  /\ bcall = NoCall
  /\ lazyBuilt = FALSE
  /\ emptyBuilt = FALSE

\* ---- build_index (src/analysis/vector_service.py lines 39-130) ----

\* a step that ends no call
NoReturn ==
  /\ ret' = NoRets
  /\ scanned' = 0

\* a call is over: its frame is gone
Ends(t, r, n) ==
  /\ pc' = [pc EXCEPT ![t] = "idle"]
  /\ ret' = [NoRets EXCEPT ![t] = r]
  /\ scanned' = n
  /\ op' = [op EXCEPT ![t] = "none"]
  /\ force' = [force EXCEPT ![t] = FALSE]
  /\ arg' = [arg EXCEPT ![t] = NoArg]
  /\ sorted' = [sorted EXCEPT ![t] = << >>]

CallEnds(t, r) == Ends(t, r, 0)

\* leaving the with-block by return: the lock is released and the caller
\* continues (lines 165 and 250 for a query, the end of the call otherwise)
BuildReturns(t) ==
  /\ lock' = None
  /\ valid' = << >>
  /\ bcall' = NoCall
  /\ IF op[t] = "build"
       THEN CallEnds(t, Ok(<< >>))
       ELSE /\ pc' = [pc EXCEPT ![t] = IF op[t] = "search" THEN "s_check" ELSE "i_check"]
            /\ UNCHANGED << op, force, arg, sorted >>
            /\ NoReturn

\* leaving the with-block by an exception, which propagates to the caller
BuildRaisesKeepingLock(t, why) ==
  /\ UNCHANGED lock
  /\ valid' = << >>
  /\ bcall' = NoCall
  /\ CallEnds(t, Raise(why))

BuildRaises(t, why) ==
  /\ lock' = None
  /\ valid' = << >>
  /\ bcall' = NoCall
  /\ CallEnds(t, Raise(why))

\* the body goes on to its next statement
BuildGoes(t, next, did) ==
  /\ pc' = [pc EXCEPT ![t] = next]
  /\ bcall' = [bcall EXCEPT !.work = @ \cup did]
  /\ UNCHANGED << lock, op, force, arg, sorted >>
  /\ NoReturn

\* a background thread invokes build_index(force_refresh = f): the warm-up
\* with f = FALSE (src/app.py line 47), a rebuild task with f = TRUE
\* (src/routes/api.py line 93)
CallBuildIndex(t, f) ==
  /\ pc[t] = "idle"
  /\ t = "builder"
  /\ pc' = [pc EXCEPT ![t] = "b_lock"]
  /\ op' = [op EXCEPT ![t] = "build"]
  /\ force' = [force EXCEPT ![t] = f]
  /\ NoReturn
  /\ UNCHANGED << storage, cache, vectors, movie_ids, id_to_meta, model, lock,
                  arg, valid, sorted, bcall, lazyBuilt,
                  emptyBuilt >>

\* line 48: with self.lock
AcquireUnguarded(t) ==
  /\ pc[t] = "b_lock"
  /\ lock' = Some(t)
  /\ pc' = [pc EXCEPT ![t] = "b_check"]
  /\ bcall' = [pre |-> Triple, work |-> {}]
  /\ UNCHANGED << storage, cache, vectors, movie_ids, id_to_meta, model, op,
                  force, arg, valid, sorted, lazyBuilt,
                  emptyBuilt >>
  /\ NoReturn

Acquire(t) ==
  /\ pc[t] = "b_lock"
  /\ IsNone(lock)
  /\ lock' = Some(t)
  /\ pc' = [pc EXCEPT ![t] = "b_check"]
  /\ bcall' = [pre |-> Triple, work |-> {}]
  /\ UNCHANGED << storage, cache, vectors, movie_ids, id_to_meta, model, op,
                  force, arg, valid, sorted, lazyBuilt,
                  emptyBuilt >>
  /\ NoReturn

\* line 50: not force_refresh and self.vectors is not None
AlreadyBuiltIgnoringForce(t) == ~IsNone(vectors)

AlreadyBuiltNever(t) == FALSE

AlreadyBuiltInverted(t) == force[t] /\ ~IsNone(vectors)

AlreadyBuilt(t) == ~force[t] /\ ~IsNone(vectors)

\* line 54: not force_refresh and os.path.exists(self.cache_path)
TryCache(t) == ~force[t] /\ cache.kind # "absent"

\* lines 49-54
CheckBuilt(t) ==
  /\ pc[t] = "b_check"
  /\ IF AlreadyBuilt(t)
       THEN BuildReturns(t)
       ELSE /\ BuildGoes(t, IF TryCache(t) THEN "b_load" ELSE "b_model", {})
            /\ UNCHANGED valid
  /\ UNCHANGED << storage, cache, vectors, movie_ids, id_to_meta, model,
                  lazyBuilt,
                  emptyBuilt >>

\* lines 141-143: open, pickle.load, self.vectors = data["vectors"];
\* a file that cannot be deserialized raises into the handler of line 64
LoadFromCacheVectorsFatal(t) ==
  /\ pc[t] = "b_load"
  /\ IF cache.kind = "blob" /\ HasKey(cache.data, "vectors")
       THEN /\ vectors' = Lookup(cache.data, "vectors")
            /\ BuildGoes(t, "b_load_ids", {})
            /\ UNCHANGED valid
       ELSE /\ BuildRaises(t, "cache")
            /\ UNCHANGED vectors
  /\ UNCHANGED << storage, cache, movie_ids, id_to_meta, model, lazyBuilt,
                  emptyBuilt >>

LoadFromCacheVectors(t) ==
  /\ pc[t] = "b_load"
  /\ IF cache.kind = "blob" /\ HasKey(cache.data, "vectors")
       THEN /\ vectors' = Lookup(cache.data, "vectors")
            /\ BuildGoes(t, "b_load_ids", {})
       ELSE /\ BuildGoes(t, "b_model", {"unreadable"})
            /\ UNCHANGED vectors
  /\ UNCHANGED << storage, cache, movie_ids, id_to_meta, model, valid,
                  lazyBuilt,
                  emptyBuilt >>

\* line 144
LoadFromCacheIdsWrongKey(t) ==
  /\ pc[t] = "b_load_ids"
  /\ IF HasKey(cache.data, "movie_ids")
       THEN /\ movie_ids' = Lookup(cache.data, "vectors")
            /\ BuildGoes(t, "b_load_meta", {})
       ELSE /\ BuildGoes(t, "b_model", {"unreadable"})
            /\ UNCHANGED movie_ids
  /\ UNCHANGED << storage, cache, vectors, id_to_meta, model, valid, lazyBuilt,
                  emptyBuilt >>

LoadFromCacheIds(t) ==
  /\ pc[t] = "b_load_ids"
  /\ IF HasKey(cache.data, "movie_ids")
       THEN /\ movie_ids' = Lookup(cache.data, "movie_ids")
            /\ BuildGoes(t, "b_load_meta", {})
       ELSE /\ BuildGoes(t, "b_model", {"unreadable"})
            /\ UNCHANGED movie_ids
  /\ UNCHANGED << storage, cache, vectors, id_to_meta, model, valid, lazyBuilt,
                  emptyBuilt >>

\* line 145
LoadFromCacheMeta(t) ==
  /\ pc[t] = "b_load_meta"
  /\ IF HasKey(cache.data, "id_to_meta")
       THEN /\ id_to_meta' = Lookup(cache.data, "id_to_meta")
            /\ BuildGoes(t, "b_count", {})
       ELSE /\ BuildGoes(t, "b_model", {"unreadable"})
            /\ UNCHANGED id_to_meta
  /\ UNCHANGED << storage, cache, vectors, movie_ids, model, valid, lazyBuilt,
                  emptyBuilt >>

\* line 59: len(self.movie_ids) == db_count
CacheFresh == Len(Val(movie_ids)) = Len(storage)

\* lines 58-65: the staleness check; a storage error is caught at line 64
CheckCount(t) ==
  /\ pc[t] = "b_count"
  /\ \/ /\ CacheFresh
        /\ BuildReturns(t)
     \/ /\ ~CacheFresh
        /\ BuildGoes(t, "b_model", {"stale"})
        /\ UNCHANGED valid
     \/ /\ BuildGoes(t, "b_model", {"unchecked"})
        /\ UNCHANGED valid
  /\ UNCHANGED << storage, cache, vectors, movie_ids, id_to_meta, model,
                  lazyBuilt,
                  emptyBuilt >>

\* line 30 called from line 68: if self.model is None
LoadModelForBuild(t) ==
  /\ pc[t] = "b_model"
  /\ BuildGoes(t, IF IsNone(model) THEN "b_construct" ELSE "b_fetch", {})
  /\ UNCHANGED << storage, cache, vectors, movie_ids, id_to_meta, model, valid,
                  lazyBuilt, emptyBuilt >>

\* lines 32-37: the constructor runs, then self.model is assigned; the
\* constructor may raise
ConstructModelForBuild(t) ==
  /\ pc[t] = "b_construct"
  /\ \/ /\ model' = Some("encoder")
        /\ BuildGoes(t, "b_fetch", {})
        /\ UNCHANGED valid
     \/ /\ BuildRaises(t, "model")
        /\ UNCHANGED model
  /\ UNCHANGED << storage, cache, vectors, movie_ids, id_to_meta, lazyBuilt,
                  emptyBuilt >>

\* lines 71-77: fetch, filter, and the empty-corpus return
FetchMovies(t) ==
  /\ pc[t] = "b_fetch"
  /\ \/ /\ BuildRaises(t, "fetch")
        /\ UNCHANGED << lazyBuilt, emptyBuilt >>
     \/ /\ ValidMovies(storage) = << >>
        /\ BuildReturns(t)
        /\ lazyBuilt' = (lazyBuilt \/ ~force[t])
        /\ emptyBuilt' = TRUE
     \/ /\ ValidMovies(storage) # << >>
        /\ valid' = ValidMovies(storage)
        /\ BuildGoes(t, "b_ids", {})
        /\ emptyBuilt' = FALSE
        /\ UNCHANGED lazyBuilt
  /\ UNCHANGED << storage, cache, vectors, movie_ids, id_to_meta, model >>

\* line 110
AssignIds(t) ==
  /\ pc[t] = "b_ids"
  /\ movie_ids' = Some(IdsOf(valid))
  /\ BuildGoes(t, "b_meta", {})
  /\ UNCHANGED << storage, cache, vectors, id_to_meta, model, valid, lazyBuilt,
                  emptyBuilt >>

\* lines 111-124
AssignMeta(t) ==
  /\ pc[t] = "b_meta"
  /\ id_to_meta' = Some(MetaOf(valid))
  /\ BuildGoes(t, "b_encode", {})
  /\ UNCHANGED << storage, cache, vectors, movie_ids, model, valid, lazyBuilt,
                  emptyBuilt >>

\* line 127: the batch encode call may raise
EncodeBatch(t) ==
  /\ pc[t] = "b_encode"
  /\ \/ /\ vectors' = Some(EncodeAll(valid))
        /\ BuildGoes(t, "b_save", {})
        /\ UNCHANGED valid
     \/ /\ BuildRaises(t, "encode")
        /\ UNCHANGED vectors
  /\ UNCHANGED << storage, cache, movie_ids, id_to_meta, model, lazyBuilt,
                  emptyBuilt >>

\* line 133: open(self.cache_path, "wb") truncates the file, or raises
SaveOpen(t) ==
  /\ pc[t] = "b_save"
  /\ \/ /\ cache' = PartialCache
        /\ BuildGoes(t, "b_dump", {})
        /\ UNCHANGED valid
     \/ /\ BuildRaises(t, "save")
        /\ UNCHANGED cache
  /\ UNCHANGED << storage, vectors, movie_ids, id_to_meta, model, lazyBuilt,
                  emptyBuilt >>

\* lines 134-138 and the return of build_index at line 130
SaveDumpNothing(t) ==
  /\ pc[t] = "b_dump"
  /\ \/ /\ BuildReturns(t)
        /\ lazyBuilt' = (lazyBuilt \/ ~force[t])
        /\ UNCHANGED cache
     \/ /\ BuildRaises(t, "save")
        /\ UNCHANGED << cache, lazyBuilt >>
  /\ UNCHANGED << storage, vectors, movie_ids, id_to_meta, model, emptyBuilt >>

SaveDump(t) ==
  /\ pc[t] = "b_dump"
  /\ \/ /\ cache' = Blob(vectors, movie_ids, id_to_meta)
        /\ BuildReturns(t)
        /\ lazyBuilt' = (lazyBuilt \/ ~force[t])
     \/ /\ BuildRaises(t, "save")
        /\ UNCHANGED << cache, lazyBuilt >>
  /\ UNCHANGED << storage, vectors, movie_ids, id_to_meta, model, emptyBuilt >>

\* ---- queries (lines 147-283) ----

Min(a, b) == IF a < b THEN a ELSE b

Abs(x) == IF x < 0 THEN 0 - x ELSE x

\* line 174: the query vector the encoder returns for a query text
QueryVec(q) == q * 8

\* lines 175 and 258: the similarity of two vectors (larger is more similar,
\* a vector is most similar to itself)
Sim(a, b) == 0 - Abs(a - b)

Similarity(qv, vs) == [i \in 1..Len(vs) |-> Sim(qv, vs[i])]

Perms(n) == { p \in [1..n -> 1..n] : \A i, j \in 1..n : p[i] = p[j] => i = j }

\* lines 178 and 262: np.argsort(similarity)[::-1]; the order of equal
\* scores is whatever the sort produces
AscOrders(sim) ==
  { p \in Perms(Len(sim)) :
      \A i, j \in 1..Len(sim) : i < j => sim[p[i]] <= sim[p[j]] }

DescOrders(sim) ==
  { p \in Perms(Len(sim)) :
      \A i, j \in 1..Len(sim) : i < j => sim[p[i]] >= sim[p[j]] }

\* the ranked candidates: row indices in order, each with its score
\* (similarity[idx] of lines 187 and 266)
Ranked(p, sim) == [i \in 1..Len(p) |-> [idx |-> p[i], score |-> sim[p[i]]]]

IsDigit(c) == c \in 0..9

\* line 195-196: re.search(r'\d{4}', str(year)) and int(), 0 without a match
ExtractYear(text) ==
  LET starts == { i \in 1..(Len(text) - 3) :
                    \A j \in i..(i + 3) : IsDigit(text[j]) }
  IN IF starts = {} THEN 0
     ELSE LET i == CHOOSE x \in starts : \A y \in starts : x <= y
          IN text[i] * 1000 + text[i + 1] * 100 + text[i + 2] * 10 + text[i + 3]

\* a not in b for strings
IsSubstring(a, b) ==
  \E i \in 0..(Len(b) - Len(a)) : SubSeq(b, i + 1, i + Len(a)) = a

\* line 197: "year_min" in filters and y < filters["year_min"]
YearMinOutcome(y, b) ==
  IF b.kind = "absent" THEN "pass"
  ELSE IF b.kind = "bad" THEN "raise"
  ELSE IF y < Val(b.val) THEN "reject" ELSE "pass"

\* line 198: "year_max" in filters and y > filters["year_max"]
YearMaxOutcome(y, b) ==
  IF b.kind = "absent" THEN "pass"
  ELSE IF b.kind = "bad" THEN "raise"
  ELSE IF y > Val(b.val) THEN "reject" ELSE "pass"

\* lines 201-202 (and 205-206, 209-210, 213-214): the key is present, its
\* value is truthy, and the value is not in the field
TextOutcomeUnchecked(field, v) ==
  IF v.kind = "bad" THEN "raise" ELSE "pass"

TextOutcome(field, v) ==
  IF v.kind = "absent" THEN "pass"
  ELSE IF v.kind = "str" /\ v.val = << >> THEN "pass"
  ELSE IF v.kind = "bad" THEN "raise"
  ELSE IF IsSubstring(v.val, field) THEN "pass" ELSE "reject"

\* the outcomes of the six tests in the order the try block runs them
FilterOutcomes(meta, f) ==
  << YearMinOutcome(ExtractYear(meta.year), f.year_min),
     YearMaxOutcome(ExtractYear(meta.year), f.year_max),
     TextOutcome(meta.country, f.country),
     TextOutcome(meta.category, f.category),
     TextOutcome(meta.director, f.director),
     TextOutcome(meta.actor, f.actor) >>

\* lines 192-218: the try block ends at the first test that rejects
\* (continue) or raises (except ... pass)
FirstDecidedSkippingRaise(outcomes) ==
  IF \E i \in 1..Len(outcomes) : outcomes[i] = "reject" THEN "reject" ELSE "pass"

FirstDecided(outcomes) ==
  IF \A i \in 1..Len(outcomes) : outcomes[i] = "pass" THEN "pass"
  ELSE outcomes[CHOOSE i \in 1..Len(outcomes) :
                  /\ outcomes[i] # "pass"
                  /\ \A j \in 1..(i - 1) : outcomes[j] = "pass"]

\* lines 192-221: the candidate is appended unless a test rejected it
AcceptedFailClosed(meta, f) == FirstDecided(FilterOutcomes(meta, f)) = "pass"

Accepted(meta, f) == FirstDecided(FilterOutcomes(meta, f)) # "reject"

\* lines 221-230 and 270-282: a result entry
Entry(id, score) == [id |-> id, similarity |-> score]

ScanOut(r, n) == [res |-> r, seen |-> n]

\* lines 183-232 and 265-283: materialise the results for the ranked
\* candidates in order, stopping at top_k; a row index the identifier list
\* or the metadata map cannot resolve raises
RECURSIVE Scan(_, _, _, _, _, _, _)

\* lines 183-185: the loop is over, or len(results) >= top_k breaks it
ScanStopsLate(order, k, acc) == order = << >> \/ Len(acc) > k

ScanStops(order, k, acc) == order = << >> \/ Len(acc) >= k

Scan(order, k, ids, meta, f, acc, seen) ==
  IF ScanStops(order, k, acc) THEN ScanOut(Ok(acc), seen)
  ELSE IF IsNone(ids) THEN ScanOut(Raise("TypeError"), seen + 1)
  ELSE IF Head(order).idx > Len(Val(ids)) THEN ScanOut(Raise("IndexError"), seen + 1)
  ELSE IF IsNone(meta) THEN ScanOut(Raise("TypeError"), seen + 1)
  ELSE IF Val(ids)[Head(order).idx] \notin DOMAIN Val(meta)
    THEN ScanOut(Raise("KeyError"), seen + 1)
  ELSE LET id == Val(ids)[Head(order).idx] IN
       Scan(Tail(order), k, ids, meta, f,
            IF Accepted(Val(meta)[id], f)
              THEN Append(acc, Entry(id, Head(order).score)) ELSE acc,
            seen + 1)

\* a query returns or raises to its route
QueryEnds(t, r) ==
  /\ CallEnds(t, r)
  /\ UNCHANGED << lock, valid, bcall >>

\* entering a query: lines 162-163 and 247-248 call build_index() when no
\* vectors are present
EnterQuery(t, kind, a, next) ==
  /\ t = "query"
  /\ pc[t] = "idle"
  /\ op' = [op EXCEPT ![t] = kind]
  /\ arg' = [arg EXCEPT ![t] = a]
  /\ NoReturn
  /\ pc' = [pc EXCEPT ![t] = IF IsNone(vectors) THEN "b_lock" ELSE next]
  /\ UNCHANGED << storage, cache, vectors, movie_ids, id_to_meta, model, lock,
                  force, valid, sorted, bcall, lazyBuilt,
                  emptyBuilt >>

\* search(query, top_k), lines 162-163
CallSearch(t, q, k, f) ==
  EnterQuery(t, "search", [id |-> q, k |-> k, filters |-> f], "s_check")

\* line 165: self.vectors is None or len(self.vectors) == 0
NothingToSearch == IsNone(vectors) \/ Len(Val(vectors)) = 0

\* lines 165-166
SearchCheck(t) ==
  /\ pc[t] = "s_check"
  /\ IF NothingToSearch
       THEN QueryEnds(t, Ok(<< >>))
       ELSE /\ pc' = [pc EXCEPT ![t] = "s_model"]
            /\ UNCHANGED << op, force, arg, sorted, lock, valid, bcall >>
            /\ NoReturn
  /\ UNCHANGED << storage, cache, vectors, movie_ids, id_to_meta, model,
                  lazyBuilt,
                  emptyBuilt >>

\* line 30 called from line 168, outside the lock: if self.model is None
LoadModelForSearch(t) ==
  /\ pc[t] = "s_model"
  /\ pc' = [pc EXCEPT ![t] = IF IsNone(model) THEN "s_construct" ELSE "s_sim"]
  /\ NoReturn
  /\ UNCHANGED << storage, cache, vectors, movie_ids, id_to_meta, model, lock,
                  op, force, arg, valid, sorted, bcall, lazyBuilt, emptyBuilt >>

\* lines 32-37 for a search: the constructor runs, then self.model is
\* assigned; the constructor may raise
ConstructModelForSearch(t) ==
  /\ pc[t] = "s_construct"
  /\ \/ /\ model' = Some("encoder")
        /\ pc' = [pc EXCEPT ![t] = "s_sim"]
        /\ UNCHANGED << op, force, arg, sorted, lock, valid, bcall >>
        /\ NoReturn
     \/ /\ QueryEnds(t, Raise("model"))
        /\ UNCHANGED model
  /\ UNCHANGED << storage, cache, vectors, movie_ids, id_to_meta, lazyBuilt,
                  emptyBuilt >>

\* lines 174-178: encode the query, similarity against self.vectors, argsort
SearchRank(t) ==
  /\ pc[t] = "s_sim"
  /\ LET sim == Similarity(QueryVec(arg[t].id), Val(vectors)) IN
     \E p \in DescOrders(sim) : sorted' = [sorted EXCEPT ![t] = Ranked(p, sim)]
  /\ pc' = [pc EXCEPT ![t] = "s_scan"]
  /\ UNCHANGED << storage, cache, vectors, movie_ids, id_to_meta, model, lock,
                  op, force, arg, valid, bcall, lazyBuilt,
                  emptyBuilt >>
  /\ NoReturn

\* lines 180-232
SearchScan(t) ==
  /\ pc[t] = "s_scan"
  /\ LET out == Scan(sorted[t], arg[t].k, movie_ids, id_to_meta,
                     arg[t].filters, << >>, 0)
     IN Ends(t, out.res, out.seen)
  /\ UNCHANGED << lock, valid, bcall >>
  /\ UNCHANGED << storage, cache, vectors, movie_ids, id_to_meta, model,
                  lazyBuilt,
                  emptyBuilt >>

\* search_by_id(movie_id, top_k), lines 247-248
CallSearchById(t, id, k) ==
  EnterQuery(t, "by_id", [id |-> id, k |-> k, filters |-> NoFilters], "i_check")

\* line 254: list.index
IndexOf(ids, x) == CHOOSE i \in 1..Len(ids) : ids[i] = x /\ \A j \in 1..(i - 1) : ids[j] # x

\* line 262: [1 : top_k + 1] of the descending order
TopIndices(order, k) == SubSeq(order, 2, Min(k + 1, Len(order)))

\* line 250: movie_id not in self.movie_ids, evaluated on whatever
\* self.movie_ids holds
ByIdMembership(t) ==
  IF IsNone(movie_ids) THEN "TypeError"
  ELSE IF \E i \in 1..Len(Val(movie_ids)) : Val(movie_ids)[i] = arg[t].id THEN "in"
  ELSE "notin"

\* lines 250-262
ByIdRank(t) ==
  /\ pc[t] = "i_check"
  /\ LET m == ByIdMembership(t) IN
     IF m = "TypeError" THEN QueryEnds(t, Raise("TypeError"))
     ELSE IF m = "notin" THEN QueryEnds(t, Ok(<< >>))
     ELSE LET idx == IndexOf(Val(movie_ids), arg[t].id) IN
          IF IsNone(vectors) THEN QueryEnds(t, Raise("TypeError"))
          ELSE IF idx > Len(Val(vectors)) THEN QueryEnds(t, Raise("IndexError"))
          ELSE /\ LET sim == Similarity(Val(vectors)[idx], Val(vectors)) IN
                  \E p \in DescOrders(sim) :
                    sorted' = [sorted EXCEPT ![t] = TopIndices(Ranked(p, sim), arg[t].k)]
               /\ pc' = [pc EXCEPT ![t] = "i_scan"]
               /\ UNCHANGED << op, force, arg, lock, valid, bcall >>
               /\ NoReturn
  /\ UNCHANGED << storage, cache, vectors, movie_ids, id_to_meta, model,
                  lazyBuilt,
                  emptyBuilt >>

\* lines 264-283
ByIdScan(t) ==
  /\ pc[t] = "i_scan"
  /\ QueryEnds(t, Scan(sorted[t], Len(sorted[t]), movie_ids, id_to_meta,
                       NoFilters, << >>, 0).res)
  /\ UNCHANGED << storage, cache, vectors, movie_ids, id_to_meta, model,
                  lazyBuilt,
                  emptyBuilt >>

\* ---- environment ----

\* the table content changes by one row (crawler insert, deletion)
ChangeStorage(s) ==
  /\ s \in Storages
  /\ \/ Len(s) = Len(storage) + 1 /\ SubSeq(s, 1, Len(storage)) = storage
     \/ Len(storage) = Len(s) + 1 /\ SubSeq(storage, 1, Len(s)) = s
  /\ storage' = s
  /\ lazyBuilt' = FALSE
  /\ UNCHANGED << cache, vectors, movie_ids, id_to_meta, model, lock, pc, op,
                  force, arg, valid, sorted, bcall, emptyBuilt >>
  /\ NoReturn

\* the process ends and a new one constructs the service (lines 19-27);
\* only the table and the cache file survive
Restart ==
  /\ vectors' = None
  /\ movie_ids' = None
  /\ id_to_meta' = None
  /\ model' = None
  /\ lock' = None
  /\ pc' = [t \in Threads |-> "idle"]
  /\ op' = [t \in Threads |-> "none"]
  /\ force' = [t \in Threads |-> FALSE]
  /\ arg' = [t \in Threads |-> NoArg]
  /\ valid' = << >>
  /\ sorted' = [t \in Threads |-> << >>]
  /\ NoReturn
  /\ bcall' = NoCall
  /\ lazyBuilt' = FALSE
  /\ emptyBuilt' = FALSE
  /\ UNCHANGED << storage, cache >>

Next ==
  \/ \E t \in Threads, f \in BOOLEAN : CallBuildIndex(t, f)
  \/ \E t \in Threads : Acquire(t)
  \/ \E t \in Threads : CheckBuilt(t)
  \/ \E t \in Threads : LoadFromCacheVectors(t)
  \/ \E t \in Threads : LoadFromCacheIds(t)
  \/ \E t \in Threads : LoadFromCacheMeta(t)
  \/ \E t \in Threads : CheckCount(t)
  \/ \E t \in Threads : LoadModelForBuild(t)
  \/ \E t \in Threads : ConstructModelForBuild(t)
  \/ \E t \in Threads : FetchMovies(t)
  \/ \E t \in Threads : AssignIds(t)
  \/ \E t \in Threads : AssignMeta(t)
  \/ \E t \in Threads : EncodeBatch(t)
  \/ \E t \in Threads : SaveOpen(t)
  \/ \E t \in Threads : SaveDump(t)
  \/ \E t \in Threads, q \in Ids, k \in TopKs : CallSearch(t, q, k, NoFilters)
  \/ \E t \in Threads : SearchCheck(t)
  \/ \E t \in Threads : LoadModelForSearch(t)
  \/ \E t \in Threads : ConstructModelForSearch(t)
  \/ \E t \in Threads : SearchRank(t)
  \/ \E t \in Threads : SearchScan(t)
  \/ \E t \in Threads, id \in Ids, k \in TopKs : CallSearchById(t, id, k)
  \/ \E t \in Threads : ByIdRank(t)
  \/ \E t \in Threads : ByIdScan(t)
  \/ \E s \in Storages : ChangeStorage(s)
  \/ Restart

Spec == Init /\ [][Next]_vars

\* ---- the queries over catalogs with attributes ----

\* the attribute sets of the catalog rows explored: a year text that is a
\* bare year, one with the year inside other characters, one without a year
Profiles ==
  << [title |-> 1, year |-> << 2, 0, 0, 1 >>, country |-> << LetterA, LetterB >>,
      category |-> << LetterA >>, director |-> << LetterA >>, actor |-> << LetterA >>],
     [title |-> 2, year |-> << Punct, 1, 9, 9, 9, Punct >>, country |-> << LetterB >>,
      category |-> << LetterB >>, director |-> << LetterB >>, actor |-> << LetterB >>],
     [title |-> 3, year |-> << Punct >>, country |-> << LetterA >>,
      category |-> << LetterB >>, director |-> << LetterA >>, actor |-> << LetterB >>] >>

ProfileRow(i, c) ==
  FullRow(i, Profiles[c].title, Some(Letters(MinIntroLen + 1)), Profiles[c].year,
          Profiles[c].country, Profiles[c].category, Profiles[c].director,
          Profiles[c].actor)

\* tables of 1..MaxId indexable rows, each with any of the attribute sets
\* (two rows may carry the same texts under different identifiers)
RichStorages ==
  UNION { { [i \in 1..n |-> ProfileRow(i, c[i])] : c \in [1..n -> 1..Len(Profiles)] } :
          n \in 1..MaxId }

\* the filter dicts explored (src/routes/api.py line 56 passes on whatever
\* the query analysis produced)
FilterSets ==
  [year_min : {Absent, IntVal(2000), BadVal},
   year_max : {Absent, IntVal(2000)},
   country : {Absent, StrVal(NoText), StrVal(<< LetterA >>), BadVal},
   category : {Absent, StrVal(<< LetterA >>)},
   director : {Absent, StrVal(<< LetterA >>)},
   actor : {Absent, StrVal(<< LetterA >>)}]

\* the service after a build of the table completed: the generation is in
\* memory and in the cache file, the encoder is loaded
QueryInit ==
  /\ storage \in RichStorages
  /\ vectors = Some(EncodeAll(ValidMovies(storage)))
  /\ movie_ids = Some(IdsOf(ValidMovies(storage)))
  /\ id_to_meta = Some(MetaOf(ValidMovies(storage)))
  /\ cache = Blob(vectors, movie_ids, id_to_meta)
  /\ model = Some("encoder")
  /\ lock = None
  /\ pc = [t \in Threads |-> "idle"]
  /\ op = [t \in Threads |-> "none"]
  /\ force = [t \in Threads |-> FALSE]
  /\ arg = [t \in Threads |-> NoArg]
  /\ valid = << >>
  /\ sorted = [t \in Threads |-> << >>]
  /\ ret = NoRets
  /\ scanned = 0
  /\ bcall = NoCall
  /\ lazyBuilt = TRUE
  /\ emptyBuilt = FALSE

QueryNext ==
  \/ \E t \in { u \in Threads : u = "query" /\ pc[u] = "idle" } :
        \E q \in Ids, k \in 0..MaxTopK, f \in FilterSets : CallSearch(t, q, k, f)
  \/ \E t \in Threads : SearchCheck(t)
  \/ \E t \in Threads : LoadModelForSearch(t)
  \/ \E t \in Threads : SearchRank(t)
  \/ \E t \in Threads : SearchScan(t)
  \/ \E t \in Threads, id \in Ids, k \in TopKs : CallSearchById(t, id, k)
  \/ \E t \in Threads : ByIdRank(t)
  \/ \E t \in Threads : ByIdScan(t)

QuerySpec == QueryInit /\ [][QueryNext]_vars

\* ---- rebuilds over tables with all kinds of descriptions ----

\* the descriptions explored (row field 6): NULL, the empty text, blanks
\* only, and texts of MinIntroLen and MinIntroLen + 1 letters with and
\* without blanks around them
Descriptions ==
  { None, Some(NoText), Some(Blanks(MinIntroLen + 1)),
    Some(Letters(MinIntroLen)),
    Some(<< Space >> \o Letters(MinIntroLen) \o << Space >>),
    Some(Letters(MinIntroLen + 1)),
    Some(<< Space >> \o Letters(MinIntroLen + 1)) }

DescRow(i, d) == FullRow(i, i, d, NoText, NoText, NoText, NoText, NoText)

\* tables of up to MaxId rows with any of the descriptions, the identifiers
\* ascending or descending in table order
DescStorages ==
  UNION { { [i \in 1..n |-> DescRow(IF up THEN i ELSE n + 1 - i, ds[i])] :
              ds \in [1..n -> Descriptions], up \in BOOLEAN } :
          n \in 0..MaxId }

\* a cache file left by another version of the program: a pickled dict
\* that lacks some of the keys lines 143-145 read
LegacyCaches ==
  { [kind |-> "blob", data |-> << << "vectors", Some(<< QueryVec(1) >>) >> >>],
    [kind |-> "blob", data |-> << << "vectors", Some(<< QueryVec(1) >>) >>,
                                  << "movie_ids", Some(<< 1 >>) >> >>] }

\* a new service instance (lines 19-27) over a table and whatever file is
\* at the cache path
BuildInit ==
  /\ storage \in DescStorages
  /\ cache \in {NoCache} \cup LegacyCaches
  /\ vectors = None
  /\ movie_ids = None
  /\ id_to_meta = None
  /\ model = None
  /\ lock = None
  /\ pc = [t \in Threads |-> "idle"]
  /\ op = [t \in Threads |-> "none"]
  /\ force = [t \in Threads |-> FALSE]
  /\ arg = [t \in Threads |-> NoArg]
  /\ valid = << >>
  /\ sorted = [t \in Threads |-> << >>]
  /\ ret = NoRets
  /\ scanned = 0
  /\ bcall = NoCall
  /\ lazyBuilt = FALSE
  /\ emptyBuilt = FALSE

\* the background thread builds, the process restarts; the table is not
\* written
BuildNext ==
  \/ \E t \in Threads, f \in BOOLEAN : CallBuildIndex(t, f)
  \/ \E t \in Threads : Acquire(t)
  \/ \E t \in Threads : CheckBuilt(t)
  \/ \E t \in Threads : LoadFromCacheVectors(t)
  \/ \E t \in Threads : LoadFromCacheIds(t)
  \/ \E t \in Threads : LoadFromCacheMeta(t)
  \/ \E t \in Threads : CheckCount(t)
  \/ \E t \in Threads : LoadModelForBuild(t)
  \/ \E t \in Threads : ConstructModelForBuild(t)
  \/ \E t \in Threads : FetchMovies(t)
  \/ \E t \in Threads : AssignIds(t)
  \/ \E t \in Threads : AssignMeta(t)
  \/ \E t \in Threads : EncodeBatch(t)
  \/ \E t \in Threads : SaveOpen(t)
  \/ \E t \in Threads : SaveDump(t)
  \/ Restart

BuildSpec == BuildInit /\ [][BuildNext]_vars

TypeOK ==
  /\ storage \in Storages \cup RichStorages \cup DescStorages
  /\ cache.kind \in {"absent", "partial", "blob"}
  /\ pc \in [Threads -> {"idle", "b_lock", "b_check", "b_load",
                         "b_load_ids", "b_load_meta", "b_count", "b_model",
                         "b_construct", "b_fetch", "b_ids", "b_meta",
                         "b_encode", "b_save", "b_dump", "s_check", "s_model",
                         "s_construct", "s_sim", "s_scan", "i_check",
                         "i_scan"}]

\* ---- generations ----

\* the generation a complete rebuild publishes for a list of indexable rows
GenOf(movies) ==
  [vectors |-> Some(EncodeAll(movies)), movie_ids |-> Some(IdsOf(movies)),
   id_to_meta |-> Some(MetaOf(movies))]

\* every triple that is one whole generation, and the absent one
Generations ==
  { GenOf(ValidMovies(s)) : s \in { x \in Storages : ValidMovies(x) # << >> } }
  \cup { NoTriple }

\* the positions of a query that has found vectors present and goes on to
\* read the three fields (lines 168-189 and 250-268)
ReadingPcs == {"s_model", "s_construct", "s_sim", "s_scan", "i_check", "i_scan"}

BodyPcs == {"b_check", "b_load", "b_load_ids", "b_load_meta", "b_count",
            "b_model", "b_construct", "b_fetch", "b_ids", "b_meta", "b_encode",
            "b_save", "b_dump"}

BuildPcs == BodyPcs \cup {"b_lock"}

\* the positions inside the SentenceTransformer constructor (line 33)
ConstructPcs == {"b_construct", "s_construct"}

\* ---- claims ----

\* C1: a query running concurrently with build_index never observes a torn
\* generation: whenever a thread is inside search or search_by_id and reading
\* the index, the triple (vectors, movie_ids, id_to_meta) it can read is one
\* whole generation (or wholly absent), never identifiers/metadata of one
\* generation with the vectors of another or with no vectors.
C1_ReaderSeesWholeGeneration ==
  \A t \in Threads : pc[t] \in ReadingPcs => Triple \in Generations

\* C2: alignment: in every state in which no build_index call is executing
\* and vectors is present, movie_ids has as many identifiers as vectors has
\* rows and id_to_meta has as many entries.
C2_AlignedWhenNoBuild ==
  ((\A t \in Threads : pc[t] \notin BuildPcs) /\ ~IsNone(vectors)) =>
     /\ ~IsNone(movie_ids)
     /\ ~IsNone(id_to_meta)
     /\ Len(Val(movie_ids)) = Len(Val(vectors))
     /\ Cardinality(DOMAIN Val(id_to_meta)) = Len(Val(movie_ids))

\* C3: when build_index raises because the encoder cannot be loaded or the
\* fetch from storage raises, the in-memory triple after the call is the one
\* that was in place when the call took the lock.
C3_FailedBuildKeepsGeneration ==
  [][\A t \in Threads :
       (lock = Some(t) /\ pc[t] \in {"b_construct", "b_fetch"} /\ ret'[t].kind = "raise")
          => Triple' = bcall.pre]_vars

\* C4: mutual exclusion of builds: at most one thread is inside the body of
\* build_index (cache load, fetch, encode, cache write) at any time.
C4_OneBuildAtATime ==
  Cardinality({ t \in Threads : pc[t] \in BodyPcs }) <= 1

\* a thread waits for the lock while the other is inside the body
C4_Witness ==
  /\ pc["query"] = "b_lock"
  /\ pc["builder"] = "b_encode"

\* C5: a build_index(force_refresh=False) call made while another build holds
\* the lock does not move until the lock is free, and when it gets the lock
\* with a generation published it returns at once: no storage fetch, no
\* encode, no cache access, nothing changed.
C5_BlockedThenNoRework ==
  [][\A t \in Threads :
       /\ (pc[t] = "b_lock" /\ ~IsNone(lock)) => (pc'[t] = "b_lock" \/ Restart)
       /\ (pc[t] = "b_check" /\ ~force[t] /\ ~IsNone(vectors) /\ pc'[t] # pc[t]) =>
             \/ Restart
             \/ /\ lock' = None
                /\ pc'[t] \in {"idle", "s_check", "i_check"}
                /\ ret'[t].kind # "raise"
                /\ UNCHANGED << storage, cache, vectors, movie_ids, id_to_meta, model >>]_vars

\* the request thread called build_index because it saw no vectors, and now
\* holds the lock after the other thread's build published a generation
C5_Witness ==
  /\ pc["query"] = "b_check"
  /\ lock = Some("query")
  /\ ~IsNone(vectors)
  /\ Triple \in Generations

C7_ForceAlwaysRebuilds ==
  [][\A t \in Threads :
       /\ (force[t] /\ pc[t] = "b_check" /\ pc'[t] # pc[t]) =>
             (Restart \/ pc'[t] = "b_model")
       /\ (force[t] /\ pc'[t] # pc[t]) =>
             pc'[t] \notin {"b_load", "b_load_ids", "b_load_meta", "b_count"}
       /\ (force[t] /\ ret'[t].kind = "ok") =>
             \/ pc[t] = "b_fetch" /\ ValidMovies(storage) = << >>
             \/ pc[t] = "b_dump" /\ Triple' = GenOf(valid)]_vars

\* a forced call rebuilds although a generation is in memory and a cache
\* blob is on disk
C7_Witness ==
  \E t \in Threads :
    /\ force[t]
    /\ pc[t] = "b_fetch"
    /\ ~IsNone(bcall.pre.vectors)
    /\ cache.kind = "blob"

\* C8: a cache blob judged stale at line 59 is discarded: when the
\* non-forced call that judged it stale ends before encoding anything, the
\* in-memory triple is not the content of that blob.
C8_StaleBlobDiscarded ==
  [][\A t \in Threads :
       (lock = Some(t) /\ ~force[t] /\ "stale" \in bcall.work
          /\ pc[t] \in {"b_construct", "b_fetch"} /\ lock' = None /\ ~Restart)
          => Triple' # BlobTriple]_vars

\* what a call raises when the encoder, the storage or the file system fails
CollaboratorFailures == { Raise(w) : w \in {"model", "fetch", "encode", "save"} }

\* C9: after a build that found no indexable record, and until a later build
\* finds one, no index is in memory and every search that ends (other than
\* by a failure of the encoder or of storage in its on-demand build) returns
\* the empty list.
C9_EmptyCorpusNoIndex ==
  /\ [](emptyBuilt /\ IsNone(lock) => IsNone(vectors))
  /\ [][\A t \in Threads :
          (emptyBuilt /\ op[t] = "search" /\ ret'[t].kind # "none"
             /\ ret'[t] \notin CollaboratorFailures)
             => ret'[t] = Ok(<< >>)]_vars

\* the identifier of the running search_by_id is not in the active generation
NotIndexed(t) ==
  \/ IsNone(movie_ids)
  \/ \A i \in 1..Len(Val(movie_ids)) : Val(movie_ids)[i] # arg[t].id

\* C10: search_by_id returns the empty list, and does not raise, whenever
\* the identifier is not present in the active generation, also when there
\* is no generation at all.
C10_UnknownIdGivesEmpty ==
  [][\A t \in Threads :
       (pc[t] = "i_check" /\ NotIndexed(t) /\ pc'[t] # pc[t] /\ ~Restart)
          => ret'[t] = Ok(<< >>)]_vars

\* ---- claims about the queries ----

\* C11: for every generation with at least 2 entries, every indexed
\* identifier X and every top_k >= 1, the result search_by_id(X, top_k)
\* returns holds no entry whose id is X, also when another entry is exactly
\* as similar to X as X itself.
C11_ByIdExcludesSelf ==
  [][\A t \in Threads :
       (pc[t] = "i_scan" /\ ret'[t].kind = "ok")
          => \A i \in 1..Len(ret'[t].val) : ret'[t].val[i].id # arg[t].id]_vars

\* the identifier and the metadata of the i-th ranked candidate of the
\* running search
CandId(t, i) == Val(movie_ids)[sorted[t][i].idx]

CandMeta(t, i) == Val(id_to_meta)[CandId(t, i)]

\* the identifiers of the entries a result list holds
ResultIds(val) == { val[j].id : j \in 1..Len(val) }

\* C12: for a generation with N entries, every top_k >= 0 and every filter
\* set, search returns at most min(top_k, N) results, and it stops scanning
\* as soon as top_k results are accepted: with top_k = 0 no candidate is
\* taken up, with top_k results the last candidate taken up is the last one
\* accepted, and with fewer every candidate was taken up.
C12_AtMostTopKAndEarlyExit ==
  [][\A t \in Threads :
       (pc[t] = "s_scan" /\ ret'[t].kind = "ok") =>
          LET val == ret'[t].val
              k == arg[t].k
          IN /\ Len(val) <= Min(k, Len(Val(movie_ids)))
             /\ scanned' <= Len(sorted[t])
             /\ k = 0 => scanned' = 0
             /\ (k > 0 /\ Len(val) = k) =>
                   (scanned' >= 1 /\ CandId(t, scanned') = val[k].id)
             /\ Len(val) < k => scanned' = Len(sorted[t])]_vars

\* a search that asked for one result returned after the first of two
\* candidates
C12_Witness ==
  /\ ret["query"].kind = "ok"
  /\ Len(ret["query"].val) = 1
  /\ scanned = 1
  /\ Len(Val(movie_ids)) = 2

\* every supplied filter value has the type the test expects, so no test
\* can raise
WellFormed(f) ==
  /\ f.year_min.kind # "bad" /\ f.year_max.kind # "bad"
  /\ f.country.kind # "bad" /\ f.category.kind # "bad"
  /\ f.director.kind # "bad" /\ f.actor.kind # "bad"

\* a non-empty text filter value is a substring of the field
TextSatisfied(field, v) ==
  (v.kind = "str" /\ v.val # << >>) => IsSubstring(v.val, field)

\* the metadata satisfies every supplied filter
Satisfies(meta, f) ==
  /\ f.year_min.kind = "int" => ExtractYear(meta.year) >= Val(f.year_min.val)
  /\ f.year_max.kind = "int" => ExtractYear(meta.year) <= Val(f.year_max.val)
  /\ TextSatisfied(meta.country, f.country)
  /\ TextSatisfied(meta.category, f.category)
  /\ TextSatisfied(meta.director, f.director)
  /\ TextSatisfied(meta.actor, f.actor)

\* C13: when no filter test raises, every result search returns satisfies
\* every supplied filter: its extracted 4-digit year (0 without one) is not
\* below year_min and not above year_max, and each non-empty
\* country/category/director/actor value is a substring of its field; an
\* absent filter constrains nothing.
C13_ResultsSatisfyFilters ==
  [][\A t \in Threads :
       (pc[t] = "s_scan" /\ ret'[t].kind = "ok" /\ WellFormed(arg[t].filters)) =>
          \A id \in ResultIds(ret'[t].val) :
             Satisfies(Val(id_to_meta)[id], arg[t].filters)]_vars

\* a search with a year bound and a country filter is about to return a
\* result after rejecting another candidate
C13_Witness ==
  \E t \in Threads :
    /\ pc[t] = "s_scan"
    /\ WellFormed(arg[t].filters)
    /\ arg[t].filters.year_min.kind = "int"
    /\ arg[t].filters.country = StrVal(<< LetterA >>)
    /\ LET out == Scan(sorted[t], arg[t].k, movie_ids, id_to_meta,
                       arg[t].filters, << >>, 0)
       IN /\ out.res.kind = "ok"
          /\ Len(out.res.val) >= 1
          /\ out.seen > Len(out.res.val)

\* the positions, in the fixed order year_min, year_max, country, category,
\* director, actor, of the tests that raise for the metadata
RaisingTests(meta, f) ==
  { i \in 1..6 : FilterOutcomes(meta, f)[i] = "raise" }

RejectingTests(meta, f) ==
  { i \in 1..6 : FilterOutcomes(meta, f)[i] = "reject" }

\* evaluating the filters for the metadata raises: a test raises and no
\* test before it rejects
EvaluationRaises(meta, f) ==
  \E i \in RaisingTests(meta, f) : \A j \in RejectingTests(meta, f) : i < j

\* C14: fail-open per candidate: when evaluating the filters for a
\* candidate the scan takes up raises, the candidate is in the results, the
\* search does not raise, and the scan goes on with the later candidates
\* (it ends only with top_k results or with the last candidate).
C14_FailOpenPerCandidate ==
  [][\A t \in Threads :
       (pc[t] = "s_scan" /\ ret'[t].kind # "none") =>
          /\ ret'[t].kind = "ok"
          /\ \A i \in 1..scanned' :
                EvaluationRaises(CandMeta(t, i), arg[t].filters)
                   => CandId(t, i) \in ResultIds(ret'[t].val)
          /\ (\E i \in 1..scanned' : EvaluationRaises(CandMeta(t, i), arg[t].filters))
                => (Len(ret'[t].val) = arg[t].k \/ scanned' = Len(sorted[t]))]_vars

\* a search whose country filter is a list is about to scan two candidates,
\* the first of which passes the year bound and so reaches the raising test
C14_Witness ==
  \E t \in Threads :
    /\ pc[t] = "s_scan"
    /\ arg[t].filters.country = BadVal
    /\ arg[t].filters.year_min.kind = "int"
    /\ arg[t].k = 2
    /\ Len(sorted[t]) = 2
    /\ EvaluationRaises(CandMeta(t, 1), arg[t].filters)
    /\ ~EvaluationRaises(CandMeta(t, 2), arg[t].filters)

\* C19 as stated: a filter whose evaluation raises is skipped on its own and
\* the later filters are still applied, so a candidate that fails a
\* well-formed filter is never in the results.
C19_LaterFiltersStillApplied ==
  [][\A t \in Threads :
       (pc[t] = "s_scan" /\ ret'[t].kind = "ok") =>
          \A i \in 1..scanned' :
             RejectingTests(CandMeta(t, i), arg[t].filters) # {}
                => CandId(t, i) \notin ResultIds(ret'[t].val)]_vars

\* C19 amended: a test that raises ends the filter evaluation for that
\* candidate: the tests before it in the fixed order have been applied, the
\* raising test and every later one are skipped. A candidate the scan takes
\* up is in the results exactly if no test rejects it before the first
\* raising test (before the end when none raises), so a candidate that
\* fails only filters later than a raising one is returned.
C19_RaiseEndsEvaluation ==
  [][\A t \in Threads :
       (pc[t] = "s_scan" /\ ret'[t].kind = "ok") =>
          \A i \in 1..scanned' :
             LET meta == CandMeta(t, i)
                 f == arg[t].filters
             IN (CandId(t, i) \in ResultIds(ret'[t].val))
                  <=> (\A j \in RejectingTests(meta, f) :
                         \E r \in RaisingTests(meta, f) : r < j)]_vars

\* a search whose year_min is None and whose country filter is well formed
\* is about to scan a candidate that fails the country filter
C19_Witness ==
  \E t \in Threads :
    /\ pc[t] = "s_scan"
    /\ arg[t].filters.year_min = BadVal
    /\ arg[t].filters.country = StrVal(<< LetterA >>)
    /\ arg[t].k >= 1
    /\ Len(sorted[t]) >= 1
    /\ 3 \in RejectingTests(CandMeta(t, 1), arg[t].filters)

\* the similarity of the query of the running search to row i of the matrix
RowScore(t, i) == Sim(QueryVec(arg[t].id), Val(vectors)[i])

\* row i of the generation passes the filters of the running search: no
\* test rejects it before one raises
RowPasses(t, i) ==
  LET meta == Val(id_to_meta)[Val(movie_ids)[i]] IN
  \A j \in RejectingTests(meta, arg[t].filters) :
     \E r \in RaisingTests(meta, arg[t].filters) : r < j

\* C20: search returns its results in non-increasing order of similarity,
\* each with the similarity of its own row to the query, and they are the
\* first top_k filter-passing entries of the descending ranking: every row
\* that passes the filters and is strictly more similar to the query than a
\* returned entry is returned too, and when fewer than top_k are returned
\* every passing row is.
C20_RankedByDescendingSimilarity ==
  [][\A t \in Threads :
       (pc[t] = "s_scan" /\ ret'[t].kind = "ok") =>
          LET val == ret'[t].val
              rows == 1..Len(Val(movie_ids))
          IN /\ \A j \in 1..(Len(val) - 1) : val[j].similarity >= val[j + 1].similarity
             /\ \A j \in 1..Len(val) :
                   \E i \in rows : /\ Val(movie_ids)[i] = val[j].id
                                    /\ RowScore(t, i) = val[j].similarity
                                    /\ RowPasses(t, i)
             /\ \A i \in rows, j \in 1..Len(val) :
                   (RowPasses(t, i) /\ RowScore(t, i) > val[j].similarity)
                      => Val(movie_ids)[i] \in ResultIds(val)
             /\ Len(val) < arg[t].k =>
                   \A i \in rows : RowPasses(t, i) => Val(movie_ids)[i] \in ResultIds(val)]_vars

\* a search for one result is about to scan two candidates of different
\* similarity, the more similar of which the filters reject
C20_Witness ==
  \E t \in Threads :
    /\ pc[t] = "s_scan"
    /\ arg[t].k = 1
    /\ Len(sorted[t]) = 2
    /\ sorted[t][1].score > sorted[t][2].score
    /\ RejectingTests(CandMeta(t, 1), arg[t].filters) # {}
    /\ RaisingTests(CandMeta(t, 1), arg[t].filters) = {}
    /\ RowPasses(t, sorted[t][2].idx)

\* ---- claims about the cache file and the encoder ----

C16_CacheNeverPartial == cache.kind # "partial"

\* C17: the encoder is constructed at most once per service instance: no
\* thread is inside the constructor while another thread is inside it or
\* after a construction has completed.
C17_ModelConstructedOnce ==
  \A t \in Threads :
    pc[t] \in ConstructPcs =>
       /\ IsNone(model)
       /\ \A u \in Threads \ {t} : pc[u] \notin ConstructPcs

\* C18: for build_index(force_refresh=False) a cache file that cannot be
\* deserialized and a stale cache are not fatal: no step of the cache path
\* raises to the caller, and either case takes the call on to the rebuild.
C18_CacheTroubleOnlyRebuilds ==
  [][\A t \in Threads :
       (~force[t] /\ pc[t] \in {"b_load", "b_load_ids", "b_load_meta", "b_count"}
          /\ pc'[t] # pc[t] /\ ~Restart) =>
          /\ ret'[t].kind # "raise"
          /\ (pc[t] = "b_load" /\ cache.kind # "blob") => pc'[t] = "b_model"
          /\ (pc[t] = "b_count" /\ ~CacheFresh) => pc'[t] = "b_model"]_vars

\* a non-forced call goes on to the rebuild after the cache file could not
\* be deserialized
C18_Witness ==
  \E t \in Threads :
    /\ pc[t] = "b_model"
    /\ ~force[t]
    /\ "unreadable" \in bcall.work

\* ---- claims about the rebuild ----

\* C21: build_index(force_refresh=False) called when a generation is in
\* memory is a no-op: from the call to its return (waiting for the lock,
\* taking it, the test of line 50) it leaves vectors, movie_ids, id_to_meta,
\* the encoder state and the cache file unchanged, never goes on to a
\* statement that calls storage, and returns normally.
C21_BuiltCallIsNoOp ==
  [][\A t \in Threads :
       (~IsNone(vectors) /\ ~force'[t] /\ ~force[t] /\ pc'[t] # pc[t] /\ ~Restart
          /\ \/ pc[t] = "idle" /\ op'[t] = "build"
             \/ pc[t] \in {"b_lock", "b_check"} /\ op[t] = "build")
          => /\ pc'[t] \in {"b_lock", "b_check", "idle"}
             /\ ret'[t].kind # "raise"
             /\ UNCHANGED << storage, cache, vectors, movie_ids, id_to_meta, model >>]_vars

\* the warm-up call holds the lock with a generation in memory
C21_Witness ==
  /\ pc["builder"] = "b_check"
  /\ op["builder"] = "build"
  /\ ~force["builder"]
  /\ lock = Some("builder")
  /\ ~IsNone(vectors)

\* C23: every successful full rebuild persists the new generation before
\* returning: when build_index leaves the cache write normally, the cache
\* file is a complete blob holding exactly the in-memory triple, which is
\* the generation built from the rows this call fetched.
C23_RebuildPersistsGeneration ==
  [][\A t \in Threads :
       (lock = Some(t) /\ pc[t] = "b_dump" /\ lock' = None
          /\ ret'[t].kind # "raise" /\ ~Restart)
          => /\ cache'.kind = "blob"
             /\ ~IsNone(vectors')
             /\ BlobTriple' = Triple'
             /\ Triple' = GenOf(valid)]_vars

\* a rebuild has encoded a generation and truncated the cache file, and is
\* about to write the blob
C23_Witness ==
  \E t \in Threads :
    /\ lock = Some(t)
    /\ pc[t] = "b_dump"
    /\ cache.kind = "partial"
    /\ Triple = GenOf(valid)

\* C25: if the batch encode call or the cache write raises during a full
\* rebuild, then after build_index has propagated the exception the
\* in-memory triple is the one that was in place when the call took the
\* lock, not the new identifier list and metadata with the old matrix.
C25_FailedEncodeOrSaveKeepsGeneration ==
  [][\A t \in Threads :
       (lock = Some(t) /\ pc[t] \in {"b_encode", "b_save", "b_dump"}
          /\ ret'[t].kind = "raise")
          => Triple' = bcall.pre]_vars

\* the length of a text between its first and its last character that is
\* not a blank
TrimmedLen(s) ==
  LET inked == { i \in 1..Len(s) : s[i] # Space }
  IN IF inked = {} THEN 0
     ELSE (CHOOSE i \in inked : \A j \in inked : j <= i)
          - (CHOOSE i \in inked : \A j \in inked : i <= j) + 1

HasLongDescription(m) == ~IsNone(m.intro) /\ TrimmedLen(Val(m.intro)) > 5

\* the places of an identifier in the identifier list
PlacesOf(id) == { j \in 1..Len(Val(movie_ids)) : Val(movie_ids)[j] = id }

\* movie_ids lists the records with a long description, each once, in table
\* order, and no other record is in movie_ids or id_to_meta
IndexedExactlyTheLong ==
  /\ \A i \in 1..Len(storage) :
        IF HasLongDescription(storage[i])
          THEN Cardinality(PlacesOf(storage[i].id)) = 1
          ELSE /\ PlacesOf(storage[i].id) = {}
               /\ storage[i].id \notin DOMAIN Val(id_to_meta)
  /\ \A i, j \in 1..Len(storage) :
        (i < j /\ HasLongDescription(storage[i]) /\ HasLongDescription(storage[j]))
           => \A a \in PlacesOf(storage[i].id), b \in PlacesOf(storage[j].id) : a < b

C24_RestartAdoptsOwnBlob ==
  [][\A t \in Threads :
       (lock = Some(t) /\ pc[t] = "b_count" /\ ~force[t]
          /\ BlobTriple = GenOf(ValidMovies(storage))
          /\ pc'[t] # pc[t] /\ "unchecked" \notin bcall'.work /\ ~Restart)
          => /\ lock' = None
             /\ ret'[t].kind # "raise"
             /\ Triple' = BlobTriple]_vars

\* C27: a cache deserialization that fails part-way assigns none of the
\* in-memory fields: when the call that found the file unreadable started
\* with nothing in memory and its rebuild then raises or finds no
\* indexable record, vectors, movie_ids and id_to_meta are still absent
\* after the call.
C27_FailedLoadAssignsNothing ==
  [][\A t \in Threads :
       (lock = Some(t) /\ "unreadable" \in bcall.work /\ bcall.pre = NoTriple
          /\ pc[t] \in {"b_construct", "b_fetch"} /\ lock' = None /\ ~Restart)
          => Triple' = NoTriple]_vars

\* ---- progress of build_index ----

\* a running service over a table that is not written, with whatever an
\* earlier process left at the cache path: nothing, a truncated file, or
\* the blob of some generation
LiveInit ==
  /\ storage \in Storages
  /\ cache \in {NoCache, PartialCache}
              \cup { Blob(g.vectors, g.movie_ids, g.id_to_meta) :
                        g \in Generations \ {NoTriple} }
  /\ vectors = None
  /\ movie_ids = None
  /\ id_to_meta = None
  /\ model = None
  /\ lock = None
  /\ pc = [t \in Threads |-> "idle"]
  /\ op = [t \in Threads |-> "none"]
  /\ force = [t \in Threads |-> FALSE]
  /\ arg = [t \in Threads |-> NoArg]
  /\ valid = << >>
  /\ sorted = [t \in Threads |-> << >>]
  /\ ret = NoRets
  /\ scanned = 0
  /\ bcall = NoCall
  /\ lazyBuilt = FALSE
  /\ emptyBuilt = FALSE

\* the statements of build_index inside the with-block (lines 49-130):
\* each is a call of the storage, the encoder or the file system, or a
\* field assignment
BodyStep(t) ==
  \/ CheckBuilt(t)
  \/ LoadFromCacheVectors(t)
  \/ LoadFromCacheIds(t)
  \/ LoadFromCacheMeta(t)
  \/ CheckCount(t)
  \/ LoadModelForBuild(t)
  \/ ConstructModelForBuild(t)
  \/ FetchMovies(t)
  \/ AssignIds(t)
  \/ AssignMeta(t)
  \/ EncodeBatch(t)
  \/ SaveOpen(t)
  \/ SaveDump(t)

\* the statements of the queries outside build_index
QueryStep(t) ==
  \/ SearchCheck(t)
  \/ LoadModelForSearch(t)
  \/ ConstructModelForSearch(t)
  \/ SearchRank(t)
  \/ SearchScan(t)
  \/ ByIdRank(t)
  \/ ByIdScan(t)

LiveNext ==
  \/ \E t \in Threads, f \in BOOLEAN : CallBuildIndex(t, f)
  \/ \E t \in Threads : Acquire(t)
  \/ \E t \in Threads : BodyStep(t)
  \/ \E t \in Threads : CallSearch(t, 1, 1, NoFilters)
  \/ \E t \in Threads : CallSearchById(t, 1, 1)
  \/ \E t \in Threads : QueryStep(t)

\* a running thread executes its next statement and the calls of storage,
\* encoder and file system terminate (weak fairness of the body); a thread
\* waiting at line 48 gets the lock if it is released again and again
\* (strong fairness of threading.Lock.acquire: every release wakes a waiter)
LiveSpec ==
  /\ LiveInit
  /\ [][LiveNext]_vars
  /\ \A t \in Threads : WF_vars(BodyStep(t))
  /\ \A t \in Threads : SF_vars(Acquire(t))

====
